---- MODULE Spec2Model ----
(***************************************************************************)
(* Model of the resume-screening utilities:                                *)
(*   lecture_4/notebooks/agent_utils.py  structured_llm_call, the seven    *)
(*                                       tool functions and TOOL_REGISTRY  *)
(*   lecture_2/notebooks/resume_utils.py analyze_resume                    *)
(* and of the decision loop that the design describes around them.         *)
(*                                                                         *)
(* Text is modelled as a sequence of code points wherever the code looks   *)
(* inside it (slicing, len, upper); opaque texts are TLA+ strings.         *)
(***************************************************************************)
EXTENDS Integers, Sequences, FiniteSets, TLC

(***************************************************************************)
(* Bounds of the model.                                                    *)
(***************************************************************************)
\* how far past a truncation threshold the longest input text reaches
MaxExtra == 2
\* the largest number of fields in a context bundle
MaxFields == 2
\* the decision loop's safety bound on iterations
MaxIterations == 3
\* how often the decision loop is invoked on one session
MaxInvocations == 2
\* the number of direct tool calls that are recorded
MaxCalls == 3

(***************************************************************************)
(* Program constants.                                                      *)
(***************************************************************************)
\* agent_utils.py:62-63   len(value) > 5000, value[:5000]
TruncateAt == 5000
\* resume_utils.py:57     resume_text[:3000]
ResumeLimit == 3000
\* agent_utils.py:89      "max_tokens": 2000
AgentMaxTokens == 2000
\* resume_utils.py:74     "max_tokens": 1500
ResumeMaxTokens == 1500
\* agent_utils.py:94, resume_utils.py:79    httpx.Client(timeout=60)
Timeout == 60

VARIABLES
    \* ---- one call of structured_llm_call / analyze_resume ----
    gw_pc,          \* position of the call
    gw_fn,          \* which of the two functions runs
    gw_caller,      \* "direct" (a notebook cell) or "loop" (the decision loop)
    context_data,   \* argument: ordered mapping, a sequence of <<key, value>>
    output_schema,  \* argument: the schema description
    resume_text,    \* argument of analyze_resume
    rendered,       \* per field, the header and the value text interpolated
    context_str,    \* local context_str / the resume slice
    payload,        \* local payload (the fields the two functions differ in)
    resp,           \* local resp
    data,           \* local data
    content,        \* local content
    exc,            \* the exception in flight
    envelope,       \* the returned dict
    requests,       \* POSTs issued by the call in progress
    connOpen,       \* the httpx.Client of the call is open
    \* ---- the decision loop's session ----
    sess_state,     \* Pending, Deciding, Dispatching, Done, Aborted
    running,        \* an invocation of the loop is in progress
    decision,       \* the validated decision awaiting dispatch
    history,        \* dispatched actions and recorded failures, in order
    terminal,       \* the session's terminal flag
    iterations,     \* iterations started
    invocations,    \* how often the loop was invoked on the session
    gatewayCalls,   \* gateway calls issued for the session
    handlerCalls,   \* handlers executed for the session
    doneCalls,      \* executions of the done handler
    terminalFlips,  \* how often terminal went from false to true
    onlyDone,       \* every reply so far was 200 with content {"action":"done"}
    \* ---- the registry and direct tool calls ----
    registry, calls

gwVars == <<gw_pc, gw_fn, gw_caller, context_data, output_schema, resume_text,
            rendered, context_str, payload, resp, data, content, exc,
            envelope, requests, connOpen>>
sessVars == <<sess_state, running, decision, history, terminal, iterations,
              invocations, gatewayCalls, handlerCalls, doneCalls, terminalFlips,
              onlyDone>>
notGw == <<sessVars, registry, calls>>
vars == <<gwVars, sessVars, registry, calls>>

(***************************************************************************)
(* Text as code points.                                                    *)
(***************************************************************************)
\* str.upper() on one character (ASCII letters)
UpperChar(c) == IF c \in 97..122 THEN c - 32 ELSE c

\* str.upper()
Upper(s) == [i \in 1..Len(s) |-> UpperChar(s[i])]

\* s[:n]
Prefix(s, n) == SubSeq(s, 1, IF Len(s) < n THEN Len(s) ELSE n)

\* "\n... (truncated)"
TruncationMarker ==
    <<10, 46, 46, 46, 32, 40, 116, 114, 117, 110, 99, 97, 116, 101, 100, 41>>

\* "None", what an f-string interpolates for None
NoneText == <<78, 111, 110, 101>>

\* a text of length n (lower-case letters, cycling)
TextOfLen(n) == [i \in 1..n |-> 97 + (i % 7)]

(***************************************************************************)
(* Python values that reach the context assembler: a str or None.          *)
(***************************************************************************)
PyNone == [py |-> "None", s |-> <<>>]
PyStr(s) == [py |-> "str", s |-> s]

\* f"{value}"
Format(value) == IF value.py = "None" THEN NoneText ELSE value.s

(***************************************************************************)
(* Context assembly, agent_utils.py:59-64.                                 *)
(***************************************************************************)
\* the truncation test written with >= instead of >
RenderValueOffByOne(value) ==
    IF value.py = "str" /\ Len(value.s) >= TruncateAt
    THEN PyStr(Prefix(value.s, TruncateAt) \o TruncationMarker)
    ELSE value

\* lines 62-63: the value after the truncation test
RenderValue(value) ==
    IF value.py = "str" /\ Len(value.s) > TruncateAt
    THEN PyStr(Prefix(value.s, TruncateAt) \o TruncationMarker)
    ELSE value

\* line 64: the two texts the f-string interpolates for one field
RenderedField(key, value) ==
    [header |-> Upper(key), value |-> Format(RenderValue(value))]

\* line 64: f"\n{key.upper()}:\n{value}\n"
FieldBlock(f) == <<10>> \o f.header \o <<58, 10>> \o f.value \o <<10>>

\* lines 61-64: the fields in the mapping's order
RenderAll(items) == [i \in 1..Len(items) |-> RenderedField(items[i][1], items[i][2])]

RECURSIVE JoinBlocks(_)
\* lines 60-64: context_str, the blocks appended in order
JoinBlocks(fields) ==
    IF fields = <<>> THEN <<>>
    ELSE FieldBlock(Head(fields)) \o JoinBlocks(Tail(fields))

(***************************************************************************)
(* Schema encoding, agent_utils.py:67.  A schema is a sequence of          *)
(* <<key, leaf>>; a leaf is JSON text or a Python object json cannot       *)
(* encode (a type such as int, a set).                                     *)
(***************************************************************************)
JsonLeaf(text) == [json |-> TRUE, repr |-> text]
PyObjectLeaf(text) == [json |-> FALSE, repr |-> text]

\* json.dumps raises TypeError on the first value it cannot encode
JsonSerializable(schema) == \A i \in 1..Len(schema) : schema[i][2].json

(***************************************************************************)
(* Exceptions and the values json.loads returns.                           *)
(***************************************************************************)
Exc(type, msg) == [type |-> type, msg |-> msg]
NoExc == Exc("none", "")

JNone == [py |-> "None", d |-> <<>>]
JDict(d) == [py |-> "dict", d |-> d]
JOther(tag) == [py |-> tag, d |-> <<>>]

Returned(v) == [raised |-> FALSE, value |-> v, exc |-> NoExc]
Raised(e) == [raised |-> TRUE, value |-> JNone, exc |-> e]

\* the texts the model may put in choices[0].message.content
ContentTexts ==
    { "not json", "null", "{}", "[]", "42", "\"done\"",
      "{\"reason\":\"skills mismatch\"}",
      "{\"action\":\"done\"}",
      "{\"action\":\"done\",\"candidate_id\":\"c1\"}",
      "{\"action\":\"schedule_interview\"}",
      "{\"action\":\"reject_application\",\"reason\":\"skills mismatch\"}",
      "{\"action\":\"reject_application\",\"candidate_id\":\"c1\",\"reason\":\"skills mismatch\"}",
      "{\"action\":\"send_email\",\"candidate_id\":\"c1\"}",
      "{\"action\":\"send_email\",\"candidate_id\":\"c1\",\"template\":\"rejection\"}" }

\* json.loads on those texts, agent_utils.py:100, resume_utils.py:85
json_loads(text) ==
    CASE text = "null" -> Returned(JNone)
      [] text = "{}" -> Returned(JDict(<<>>))
      [] text = "[]" -> Returned(JOther("list"))
      [] text = "42" -> Returned(JOther("int"))
      [] text = "\"done\"" -> Returned(JOther("str"))
      [] text = "{\"reason\":\"skills mismatch\"}" ->
            Returned(JDict([reason |-> "skills mismatch"]))
      [] text = "{\"action\":\"done\"}" ->
            Returned(JDict([action |-> "done"]))
      [] text = "{\"action\":\"done\",\"candidate_id\":\"c1\"}" ->
            Returned(JDict([action |-> "done", candidate_id |-> "c1"]))
      [] text = "{\"action\":\"schedule_interview\"}" ->
            Returned(JDict([action |-> "schedule_interview"]))
      [] text = "{\"action\":\"reject_application\",\"reason\":\"skills mismatch\"}" ->
            Returned(JDict([action |-> "reject_application",
                            reason |-> "skills mismatch"]))
      [] text = "{\"action\":\"reject_application\",\"candidate_id\":\"c1\",\"reason\":\"skills mismatch\"}" ->
            Returned(JDict([action |-> "reject_application", candidate_id |-> "c1",
                            reason |-> "skills mismatch"]))
      [] text = "{\"action\":\"send_email\",\"candidate_id\":\"c1\"}" ->
            Returned(JDict([action |-> "send_email", candidate_id |-> "c1"]))
      [] text = "{\"action\":\"send_email\",\"candidate_id\":\"c1\",\"template\":\"rejection\"}" ->
            Returned(JDict([action |-> "send_email", candidate_id |-> "c1",
                            template |-> "rejection"]))
      [] OTHER -> Raised(Exc("JSONDecodeError",
                             "Expecting value: line 1 column 1 (char 0)"))

(***************************************************************************)
(* What the completion endpoint may do with one POST.                      *)
(***************************************************************************)
\* a response body by the shape the code walks: resp.json(), then
\* data["choices"][0]["message"]["content"], then data.get("usage", {})
WellFormedBody(text, usage) ==
    [decodable |-> TRUE, is_object |-> TRUE, has_choices |-> TRUE,
     n_choices |-> 1, has_message |-> TRUE, has_content |-> TRUE,
     content_is_str |-> TRUE, content |-> text, has_usage |-> usage]

NoBody == [WellFormedBody("", FALSE) EXCEPT !.decodable = FALSE]

MalformedBodies ==
    { NoBody,
      [WellFormedBody("", FALSE) EXCEPT !.is_object = FALSE],
      [WellFormedBody("", TRUE) EXCEPT !.has_choices = FALSE],
      [WellFormedBody("", TRUE) EXCEPT !.n_choices = 0],
      [WellFormedBody("", FALSE) EXCEPT !.has_message = FALSE],
      [WellFormedBody("", FALSE) EXCEPT !.has_content = FALSE],
      [WellFormedBody("", TRUE) EXCEPT !.content_is_str = FALSE] }

Bodies ==
    MalformedBodies
    \cup { WellFormedBody(t, TRUE) : t \in ContentTexts }
    \cup { WellFormedBody(t, FALSE) : t \in {"null", "{}", "not json"} }

NoResp == [status |-> 0, body |-> NoBody]

Responses ==
    { [status |-> 200, body |-> b] : b \in Bodies }
    \cup { [status |-> st, body |-> b] : st \in {404, 500}, b \in {NoBody, WellFormedBody("{}", TRUE)} }

\* client.post itself fails: no response
NetworkFailures ==
    { Exc("ConnectError", "[Errno 111] Connection refused"),
      Exc("ReadTimeout", "The read operation timed out") }

\* the provider's token counters, or the default {} of data.get("usage", {})
Usage(body) == IF body.has_usage THEN [total_tokens |-> 42] ELSE <<>>

(***************************************************************************)
(* The steps of lines 99-100 as functions of the decoded body.             *)
(***************************************************************************)
NoContent == [is_str |-> FALSE, text |-> ""]

\* line 99: data["choices"][0]["message"]["content"]
ExtractContent(body) ==
    IF ~body.is_object
    THEN [raised |-> TRUE, content |-> NoContent,
          exc |-> Exc("TypeError", "list indices must be integers or slices, not str")]
    ELSE IF ~body.has_choices
    THEN [raised |-> TRUE, content |-> NoContent, exc |-> Exc("KeyError", "'choices'")]
    ELSE IF body.n_choices = 0
    THEN [raised |-> TRUE, content |-> NoContent,
          exc |-> Exc("IndexError", "list index out of range")]
    ELSE IF ~body.has_message
    THEN [raised |-> TRUE, content |-> NoContent, exc |-> Exc("KeyError", "'message'")]
    ELSE IF ~body.has_content
    THEN [raised |-> TRUE, content |-> NoContent, exc |-> Exc("KeyError", "'content'")]
    ELSE [raised |-> FALSE, exc |-> NoExc,
          content |-> [is_str |-> body.content_is_str, text |-> body.content]]

\* line 100: json.loads(content); content may be None (a JSON null)
ParseContent(c) ==
    IF ~c.is_str
    THEN Raised(Exc("TypeError",
                    "the JSON object must be str, bytes or bytearray, not NoneType"))
    ELSE json_loads(c.text)

(***************************************************************************)
(* The envelope.                                                           *)
(***************************************************************************)
ErrNone == [py |-> "None", s |-> ""]
ErrStr(msg) == [py |-> "str", s |-> msg]

NoEnvelope == [result |-> JNone, error |-> ErrNone, usage |-> <<>>, set |-> FALSE]

\* lines 102-106
SuccessEnvelope(result, body) ==
    [result |-> result, error |-> ErrNone, usage |-> Usage(body), set |-> TRUE]

\* lines 108-112: str(e)
ErrorEnvelope(e) ==
    [result |-> JNone, error |-> ErrStr(e.msg), usage |-> <<>>, set |-> TRUE]

(***************************************************************************)
(* Inputs of direct calls.                                                 *)
(***************************************************************************)
\* "resume", "job_req", "notes"
FieldNames ==
    { <<114, 101, 115, 117, 109, 101>>,
      <<106, 111, 98, 95, 114, 101, 113>>,
      <<110, 111, 116, 101, 115>> }

\* field values: None, and texts around the truncation threshold
FieldValues ==
    { PyNone }
    \cup { PyStr(TextOfLen(n)) :
             n \in {0, 3, TruncateAt, TruncateAt + 1, TruncateAt + MaxExtra} }

\* ordered mappings with distinct keys
ContextBundles ==
    UNION { { b \in [1..n -> FieldNames \X FieldValues] :
                \A i, j \in 1..n : i # j => b[i][1] # b[j][1] } :
            n \in 0..MaxFields }

OutputSchemas ==
    { << <<"score", JsonLeaf("number 0-100")>>, <<"summary", JsonLeaf("string")>> >>,
      << <<"score", PyObjectLeaf("<class 'int'>")>> >> }

ResumeTexts ==
    { TextOfLen(n) : n \in {0, 3, ResumeLimit, ResumeLimit + MaxExtra} }

(***************************************************************************)
(* structured_llm_call and analyze_resume, step by step.                   *)
(***************************************************************************)
gwArgs == <<gw_fn, gw_caller, context_data, output_schema, resume_text>>
gwAsm == <<rendered, context_str, payload>>
gwHttp == <<resp, data, content>>
NoPayload == [max_tokens |-> 0, response_format |-> "", timeout |-> 0]

GwIdle ==
    /\ gw_pc = "idle" /\ gw_fn = "none" /\ gw_caller = "none"
    /\ context_data = <<>> /\ output_schema = <<>> /\ resume_text = <<>>
    /\ rendered = <<>> /\ context_str = <<>> /\ payload = NoPayload
    /\ resp = NoResp /\ data = NoBody /\ content = NoContent
    /\ exc = NoExc /\ envelope = NoEnvelope
    /\ requests = 0 /\ connOpen = FALSE

\* the call is entered with its arguments bound
Enter(fn, caller, bundle, schema, resume) ==
    /\ gw_pc = "idle"
    /\ gw_pc' = "context"
    /\ gw_fn' = fn /\ gw_caller' = caller
    /\ context_data' = bundle /\ output_schema' = schema /\ resume_text' = resume
    /\ UNCHANGED <<gwAsm, gwHttp, exc, envelope, requests, connOpen>>

\* agent_utils.py:59-64
BuildContext ==
    /\ UNCHANGED notGw
    /\ gw_pc = "context" /\ gw_fn = "structured_llm_call"
    /\ rendered' = RenderAll(context_data)
    /\ context_str' = JoinBlocks(rendered')
    /\ gw_pc' = "schema"
    /\ UNCHANGED <<gwArgs, payload, gwHttp, exc, envelope, requests, connOpen>>

\* agent_utils.py:67; a TypeError here is outside the try block
BuildSchema ==
    /\ UNCHANGED notGw
    /\ gw_pc = "schema"
    /\ IF JsonSerializable(output_schema)
       THEN gw_pc' = "payload" /\ exc' = exc
       ELSE /\ gw_pc' = "raised"
            /\ exc' = Exc("TypeError", "Object of type type is not JSON serializable")
    /\ UNCHANGED <<gwArgs, gwAsm, gwHttp, envelope, requests, connOpen>>

\* resume_utils.py:54-62: the prompt takes resume_text[:3000]
BuildResumePrompt ==
    /\ UNCHANGED notGw
    /\ gw_pc = "context" /\ gw_fn = "analyze_resume"
    /\ context_str' = Prefix(resume_text, ResumeLimit)
    /\ gw_pc' = "payload"
    /\ UNCHANGED <<gwArgs, rendered, payload, gwHttp, exc, envelope, requests, connOpen>>

\* agent_utils.py:70-91, resume_utils.py:64-76.  The prompt goes into the
\* payload; the arguments and the assembled texts are not read again.
BuildPayload ==
    /\ UNCHANGED notGw
    /\ gw_pc = "payload"
    /\ payload' = [max_tokens |-> IF gw_fn = "analyze_resume"
                                  THEN ResumeMaxTokens ELSE AgentMaxTokens,
                   response_format |-> "json_object", timeout |-> 0]
    /\ context_data' = <<>> /\ output_schema' = <<>> /\ resume_text' = <<>>
    /\ rendered' = <<>> /\ context_str' = <<>>
    /\ gw_pc' = "try"
    /\ UNCHANGED <<gw_fn, gw_caller, gwHttp, exc, envelope, requests, connOpen>>

\* agent_utils.py:94, resume_utils.py:79: with httpx.Client(timeout=60)
OpenClient ==
    /\ UNCHANGED notGw
    /\ gw_pc = "try"
    /\ connOpen' = TRUE
    /\ payload' = [payload EXCEPT !.timeout = Timeout]
    /\ gw_pc' = "post"
    /\ UNCHANGED <<gwArgs, rendered, context_str, gwHttp, exc, envelope, requests>>

\* a try block around a client that no with statement closes
RaiseInWithLeak(e) ==
    /\ exc' = e
    /\ connOpen' = connOpen
    /\ gw_pc' = "except"

\* an exception inside the with block: the client is closed on the way to
\* the except clause
RaiseInWith(e) ==
    /\ exc' = e
    /\ connOpen' = FALSE
    /\ gw_pc' = "except"

\* line 95 / 80: the endpoint answers
Post ==
    /\ UNCHANGED notGw
    /\ gw_pc = "post"
    /\ \E r \in Responses : resp' = r
    /\ requests' = requests + 1
    /\ gw_pc' = "status"
    /\ UNCHANGED <<gwArgs, gwAsm, data, content, exc, envelope, connOpen>>

\* line 95 / 80: the request fails on the network
PostFails ==
    /\ UNCHANGED notGw
    /\ gw_pc = "post"
    /\ \E e \in NetworkFailures : RaiseInWith(e)
    /\ requests' = requests + 1
    /\ UNCHANGED <<gwArgs, gwAsm, gwHttp, envelope>>

\* line 96 / 81: resp.raise_for_status()
RaiseForStatus ==
    /\ UNCHANGED notGw
    /\ gw_pc = "status"
    /\ IF resp.status \in 200..299
       THEN gw_pc' = "json" /\ UNCHANGED <<exc, connOpen>>
       ELSE RaiseInWith(Exc("HTTPStatusError", "Client or server error for url"))
    /\ UNCHANGED <<gwArgs, gwAsm, gwHttp, envelope, requests>>

\* line 97 / 82: data = resp.json()
RespJson ==
    /\ UNCHANGED notGw
    /\ gw_pc = "json"
    /\ IF resp.body.decodable
       THEN data' = resp.body /\ gw_pc' = "content" /\ UNCHANGED <<exc, connOpen>>
       ELSE /\ RaiseInWith(Exc("JSONDecodeError",
                               "Expecting value: line 1 column 1 (char 0)"))
            /\ data' = data
    /\ UNCHANGED <<gwArgs, gwAsm, resp, content, envelope, requests>>

\* line 99 / 84
GetContent ==
    /\ UNCHANGED notGw
    /\ gw_pc = "content"
    /\ LET r == ExtractContent(data) IN
       IF r.raised
       THEN RaiseInWith(r.exc) /\ content' = content
       ELSE content' = r.content /\ gw_pc' = "loads" /\ UNCHANGED <<exc, connOpen>>
    /\ UNCHANGED <<gwArgs, gwAsm, resp, data, envelope, requests>>

\* lines 100-106 / 85-91: result = json.loads(content), the returned dict
LoadsContent ==
    /\ UNCHANGED notGw
    /\ gw_pc = "loads"
    /\ LET r == ParseContent(content) IN
       IF r.raised
       THEN RaiseInWith(r.exc) /\ envelope' = envelope
       ELSE /\ envelope' = SuccessEnvelope(r.value, data)
            /\ gw_pc' = "exit_with"
            /\ UNCHANGED <<exc, connOpen>>
    /\ UNCHANGED <<gwArgs, gwAsm, gwHttp, requests>>

\* the return statement leaves the with block: the client is closed
ExitWith ==
    /\ UNCHANGED notGw
    /\ gw_pc = "exit_with"
    /\ connOpen' = FALSE
    /\ gw_pc' = "returned"
    /\ UNCHANGED <<gwArgs, gwAsm, gwHttp, exc, envelope, requests>>

\* lines 107-112 / 92-97
Except ==
    /\ UNCHANGED notGw
    /\ gw_pc = "except"
    /\ envelope' = ErrorEnvelope(exc)
    /\ gw_pc' = "returned"
    /\ UNCHANGED <<gwArgs, gwAsm, gwHttp, exc, requests, connOpen>>

\* the frame of the finished call is dropped
GwReset ==
    /\ gw_pc' = "idle" /\ gw_fn' = "none" /\ gw_caller' = "none"
    /\ context_data' = <<>> /\ output_schema' = <<>> /\ resume_text' = <<>>
    /\ rendered' = <<>> /\ context_str' = <<>> /\ payload' = NoPayload
    /\ resp' = NoResp /\ data' = NoBody /\ content' = NoContent
    /\ exc' = NoExc /\ envelope' = NoEnvelope
    /\ requests' = 0 /\ connOpen' = FALSE

(***************************************************************************)
(* The tool functions, agent_utils.py:119-248.  A message is the sequence  *)
(* of the pieces its f-string joins.                                       *)
(***************************************************************************)
schedule_technical_assessment(candidate_id, assessment_type) ==
    [status |-> "success",
     message |-> <<"Technical assessment (", assessment_type,
                   ") scheduled for candidate ", candidate_id>>,
     assessment_type |-> assessment_type,
     scheduled_date |-> "2024-02-15"]

route_to_department(candidate_id, department, reason) ==
    [status |-> "success",
     message |-> <<"Candidate ", candidate_id, " routed to ", department>>,
     department |-> department,
     reason |-> reason]

request_additional_info(candidate_id, info_needed) ==
    [status |-> "success",
     message |-> <<"Additional info requested from candidate ", candidate_id>>,
     info_needed |-> info_needed,
     request_sent_date |-> "2024-02-01"]

reject_application(candidate_id, reason) ==
    [status |-> "success",
     message |-> <<"Application rejected for candidate ", candidate_id>>,
     reason |-> reason,
     rejection_email_sent |-> TRUE]

flag_for_manual_review(candidate_id, concern) ==
    [status |-> "success",
     message |-> <<"Candidate ", candidate_id, " flagged for manual review">>,
     concern |-> concern,
     assigned_to |-> "hiring_manager"]

\* a send_email that numbers its mails with a counter kept between calls
send_email_numbered(candidate_id, template) ==
    [status |-> "success",
     message |-> <<"Email sent to candidate ", candidate_id, " #", Len(calls)>>,
     template |-> template,
     sent_date |-> "2024-02-01"]

send_email(candidate_id, template) ==
    [status |-> "success",
     message |-> <<"Email sent to candidate ", candidate_id>>,
     template |-> template,
     sent_date |-> "2024-02-01"]

done(candidate_id) ==
    [status |-> "success",
     message |-> <<"Processing complete for candidate ", candidate_id>>,
     final |-> TRUE]

\* a tool that deregisters itself once it has run
ToolEffectDeregister(name, reg) ==
    [n \in DOMAIN reg \ {name} |-> reg[n]]

\* what running a tool does to the module-level TOOL_REGISTRY: the seven
\* functions write no global
ToolEffect(name, reg) == reg

(***************************************************************************)
(* TOOL_REGISTRY, agent_utils.py:255-312.  "parameters" keeps the order    *)
(* of the dict: a sequence of <<name, description>>.                       *)
(***************************************************************************)
TOOL_REGISTRY ==
    [schedule_technical_assessment |->
        [function |-> "schedule_technical_assessment",
         description |-> "Schedule a technical assessment (coding challenge, system design, etc.) for a promising candidate",
         parameters |->
            << <<"candidate_id", "string - The candidate's ID">>,
               <<"assessment_type", "string - Type of assessment: 'coding_challenge', 'system_design', 'live_coding'">> >>],
     route_to_department |->
        [function |-> "route_to_department",
         description |-> "Route candidate to a specific department or hiring manager for further review",
         parameters |->
            << <<"candidate_id", "string - The candidate's ID">>,
               <<"department", "string - Department name: 'senior_engineering', 'junior_engineering', 'internship'">>,
               <<"reason", "string - Reason for routing to this department">> >>],
     request_additional_info |->
        [function |-> "request_additional_info",
         description |-> "Request additional information from the candidate (e.g., missing education details, clarification)",
         parameters |->
            << <<"candidate_id", "string - The candidate's ID">>,
               <<"info_needed", "string - Description of what information is needed">> >>],
     reject_application |->
        [function |-> "reject_application",
         description |-> "Reject the candidate's application with a reason",
         parameters |->
            << <<"candidate_id", "string - The candidate's ID">>,
               <<"reason", "string - Reason for rejection (be professional and constructive)">> >>],
     flag_for_manual_review |->
        [function |-> "flag_for_manual_review",
         description |-> "Flag candidate for manual human review when uncertain or edge case",
         parameters |->
            << <<"candidate_id", "string - The candidate's ID">>,
               <<"concern", "string - Description of what requires human judgment">> >>],
     send_email |->
        [function |-> "send_email",
         description |-> "Send an email to the candidate using a template",
         parameters |->
            << <<"candidate_id", "string - The candidate's ID">>,
               <<"template", "string - Template name: 'technical_interview_invite', 'rejection', 'request_info'">> >>],
     done |->
        [function |-> "done",
         description |-> "Signal that processing is complete for this candidate. Call this when no further automated actions are needed.",
         parameters |->
            << <<"candidate_id", "string - The candidate's ID">> >>]]

\* the parameter names a descriptor declares
DeclaredParams(descriptor) ==
    { descriptor.parameters[i][1] : i \in 1..Len(descriptor.parameters) }

\* TOOL_REGISTRY[name]["function"](candidate_id, **args): the function object
\* of an entry applied to its arguments
Apply(fn, candidate_id, args) ==
    CASE fn = "schedule_technical_assessment" ->
            schedule_technical_assessment(candidate_id, args.assessment_type)
      [] fn = "route_to_department" ->
            route_to_department(candidate_id, args.department, args.reason)
      [] fn = "request_additional_info" ->
            request_additional_info(candidate_id, args.info_needed)
      [] fn = "reject_application" ->
            reject_application(candidate_id, args.reason)
      [] fn = "flag_for_manual_review" ->
            flag_for_manual_review(candidate_id, args.concern)
      [] fn = "send_email" ->
            send_email(candidate_id, args.template)
      [] fn = "done" ->
            done(candidate_id)

(***************************************************************************)
(* Direct tool calls, as a notebook cell makes them.                       *)
(***************************************************************************)
Candidates == {"c1", "c2"}

\* argument values tried for a parameter
ArgValues(param) ==
    CASE param = "assessment_type" -> {"coding_challenge", "system_design"}
      [] param = "department" -> {"senior_engineering", "internship"}
      [] param = "reason" -> {"skills mismatch", "strong backend profile"}
      [] param = "info_needed" -> {"education details"}
      [] param = "concern" -> {"employment gap"}
      [] param = "template" -> {"rejection", "request_info"}

\* the keyword arguments of one call: a value for every declared parameter
\* but candidate_id, which is passed first
ArgChoices(descriptor) ==
    LET names == DeclaredParams(descriptor) \ {"candidate_id"} IN
    { a \in [names -> UNION { ArgValues(p) : p \in names }] :
        \A p \in names : a[p] \in ArgValues(p) }

\* a cell calls TOOL_REGISTRY[name]["function"](candidate_id, **args)
ToolCall ==
    /\ Len(calls) < MaxCalls
    /\ \E name \in DOMAIN registry, cid \in Candidates :
         \E args \in ArgChoices(registry[name]) :
           /\ calls' = Append(calls,
                  [name |-> name, candidate_id |-> cid, args |-> args,
                   outcome |-> Apply(registry[name].function, cid, args)])
           /\ registry' = ToolEffect(name, registry)
    /\ UNCHANGED <<gwVars, sessVars>>

(***************************************************************************)
(* The decision loop of the design (sections 4.4 to 4.6 and 7), for one    *)
(* candidate.                                                              *)
(***************************************************************************)
CandidateRecord == [id |-> "c1", resume_text |-> TextOfLen(3)]

\* the registry's keys in the order the dict literal lists them
ActionOrder ==
    <<"schedule_technical_assessment", "route_to_department",
      "request_additional_info", "reject_application",
      "flag_for_manual_review", "send_email", "done">>

\* 4.6: the action catalog's descriptions as the schema contract
CatalogSchema(reg) ==
    LET present == SelectSeq(ActionOrder, LAMBDA n : n \in DOMAIN reg) IN
    [i \in 1..Len(present) |-> <<present[i], JsonLeaf(reg[present[i]].description)>>]

\* "success" / "failure"
StatusText(entry) ==
    IF entry.kind = "dispatch"
    THEN <<115, 117, 99, 99, 101, 115, 115>>
    ELSE <<102, 97, 105, 108, 117, 114, 101>>

\* 4.6: context from the candidate record, plus any prior outcome
LoopContext(hist) ==
    << <<(<<114, 101, 115, 117, 109, 101>>), PyStr(CandidateRecord.resume_text)>> >>
    \o (IF hist = <<>> THEN <<>>
        ELSE << <<(<<110, 111, 116, 101, 115>>), PyStr(StatusText(hist[Len(hist)]))>> >>)

NoDecision == [action |-> ""]

FailureEntry(class) ==
    [kind |-> "failure", class |-> class, action |-> "", outcome |-> <<>>]
DispatchEntry(action, outcome) ==
    [kind |-> "dispatch", class |-> "", action |-> action, outcome |-> outcome]

\* section 7: connection, timeout and non-2xx are NetworkFailure, the other
\* errors of the envelope DecodeFailure
NetworkMessages ==
    { e.msg : e \in NetworkFailures } \cup { "Client or server error for url" }

\* a validation that does not look at the declared parameters
ClassifyNoParams(env, reg) ==
    IF env.error.py # "None"
    THEN IF env.error.s \in NetworkMessages THEN "NetworkFailure" ELSE "DecodeFailure"
    ELSE IF env.result.py # "dict" THEN "SchemaViolation"
    ELSE IF "action" \notin DOMAIN env.result.d THEN "SchemaViolation"
    ELSE IF env.result.d.action \notin DOMAIN reg THEN "UnknownAction"
    ELSE "Valid"

\* 4.4: the verdict on an envelope
Classify(env, reg) ==
    IF env.error.py # "None"
    THEN IF env.error.s \in NetworkMessages THEN "NetworkFailure" ELSE "DecodeFailure"
    ELSE IF env.result.py # "dict" THEN "SchemaViolation"
    ELSE IF "action" \notin DOMAIN env.result.d THEN "SchemaViolation"
    ELSE IF env.result.d.action \notin DOMAIN reg THEN "UnknownAction"
    ELSE IF ~(DeclaredParams(reg[env.result.d.action]) \subseteq DOMAIN env.result.d)
    THEN "SchemaViolation"
    ELSE "Valid"

\* a loop that starts over whatever state the session is in
EntryStateRestart(state) == "Pending"

\* the state a session has when the loop is invoked on it: a session that is
\* Done or Aborted is left as it is
EntryState(state) == state

\* a driver invokes the loop on the session; the loop runs only from Pending
Invoke ==
    /\ ~running /\ gw_pc = "idle"
    /\ invocations < MaxInvocations
    /\ invocations' = invocations + 1
    /\ sess_state' = EntryState(sess_state)
    /\ running' = (sess_state' = "Pending")
    /\ UNCHANGED <<gwVars, decision, history, terminal, iterations,
                   gatewayCalls, handlerCalls, doneCalls, terminalFlips, onlyDone,
                   registry, calls>>

\* Pending -> Deciding: the gateway is called
Decide ==
    /\ running /\ sess_state = "Pending"
    /\ iterations < MaxIterations
    /\ Enter("structured_llm_call", "loop", LoopContext(history),
             CatalogSchema(registry), <<>>)
    /\ sess_state' = "Deciding"
    /\ iterations' = iterations + 1
    /\ gatewayCalls' = gatewayCalls + 1
    /\ UNCHANGED <<running, decision, history, terminal, invocations, handlerCalls,
                   doneCalls, terminalFlips, onlyDone, registry, calls>>

\* the safety bound: Aborted once the iterations are used up
AbortOnBound ==
    /\ running /\ sess_state = "Pending"
    /\ iterations >= MaxIterations
    /\ sess_state' = "Aborted"
    /\ running' = FALSE
    /\ UNCHANGED <<gwVars, decision, history, terminal, iterations, invocations,
                   gatewayCalls, handlerCalls, doneCalls, terminalFlips, onlyDone,
                   registry, calls>>

\* Deciding -> Dispatching, or the failure is recorded
Validate ==
    /\ sess_state = "Deciding" /\ gw_caller = "loop" /\ gw_pc = "returned"
    /\ LET verdict == Classify(envelope, registry) IN
       /\ onlyDone' = (onlyDone /\ resp.status = 200
                       /\ resp.body.decodable /\ resp.body.is_object
                       /\ resp.body.has_choices /\ resp.body.n_choices = 1
                       /\ resp.body.has_message /\ resp.body.has_content
                       /\ resp.body.content_is_str
                       /\ resp.body.content = "{\"action\":\"done\"}")
       /\ IF verdict = "Valid"
          THEN /\ decision' = envelope.result.d
               /\ sess_state' = "Dispatching"
               /\ history' = history
          ELSE /\ decision' = NoDecision
               /\ sess_state' = "Pending"
               /\ history' = Append(history, FailureEntry(verdict))
    /\ GwReset
    /\ UNCHANGED <<running, terminal, iterations, invocations, gatewayCalls,
                   handlerCalls, doneCalls, terminalFlips, registry, calls>>

\* 4.5: the handler runs with candidate_id plus the declared parameters;
\* Dispatching -> Done for done, Dispatching -> Pending otherwise
Dispatch ==
    /\ sess_state = "Dispatching"
    /\ LET action == decision.action
           outcome == Apply(registry[action].function, CandidateRecord.id, decision)
       IN /\ history' = Append(history, DispatchEntry(action, outcome))
          /\ handlerCalls' = handlerCalls + 1
          /\ registry' = ToolEffect(action, registry)
          /\ IF action = "done"
             THEN /\ sess_state' = "Done"
                  /\ running' = FALSE
                  /\ doneCalls' = doneCalls + 1
                  /\ terminalFlips' = terminalFlips + (IF terminal THEN 0 ELSE 1)
                  /\ terminal' = TRUE
             ELSE /\ sess_state' = "Pending"
                  /\ UNCHANGED <<running, doneCalls, terminalFlips, terminal>>
    /\ decision' = NoDecision
    /\ UNCHANGED <<gwVars, iterations, invocations, gatewayCalls, onlyDone, calls>>

(***************************************************************************)
(* A notebook cell calls one of the two functions directly.                *)
(***************************************************************************)
CallStructured ==
    /\ sess_state = "Pending" /\ ~running
    /\ \E bundle \in ContextBundles, schema \in OutputSchemas :
         Enter("structured_llm_call", "direct", bundle, schema, <<>>)
    /\ UNCHANGED <<sessVars, registry, calls>>

CallAnalyze ==
    /\ sess_state = "Pending" /\ ~running
    /\ \E text \in ResumeTexts :
         Enter("analyze_resume", "direct", <<>>,
               << <<"schema", JsonLeaf("{score: number}")>> >>, text)
    /\ UNCHANGED <<sessVars, registry, calls>>

\* the cell has the envelope, or the exception
DirectReturn ==
    /\ gw_caller = "direct" /\ gw_pc \in {"returned", "raised"}
    /\ GwReset
    /\ UNCHANGED <<sessVars, registry, calls>>

(***************************************************************************)
(* Specifications.                                                         *)
(***************************************************************************)
Init ==
    /\ GwIdle
    /\ sess_state = "Pending" /\ running = FALSE /\ decision = NoDecision
    /\ history = <<>> /\ terminal = FALSE
    /\ iterations = 0 /\ invocations = 0
    /\ gatewayCalls = 0 /\ handlerCalls = 0 /\ doneCalls = 0 /\ terminalFlips = 0
    /\ onlyDone = TRUE
    /\ registry = TOOL_REGISTRY
    /\ calls = <<>>

\* direct calls of structured_llm_call and analyze_resume
NextGateway ==
    \/ CallStructured \/ CallAnalyze \/ DirectReturn
    \/ BuildContext \/ BuildSchema \/ BuildResumePrompt \/ BuildPayload
    \/ OpenClient \/ Post \/ PostFails \/ RaiseForStatus \/ RespJson
    \/ GetContent \/ LoadsContent \/ ExitWith \/ Except
SpecGateway == Init /\ [][NextGateway]_vars

\* the decision loop over structured_llm_call and the registry
NextLoop ==
    \/ Invoke \/ Decide \/ AbortOnBound \/ Validate \/ Dispatch
    \/ BuildContext \/ BuildSchema \/ BuildPayload
    \/ OpenClient \/ Post \/ PostFails \/ RaiseForStatus \/ RespJson
    \/ GetContent \/ LoadsContent \/ ExitWith \/ Except
SpecLoop == Init /\ [][NextLoop]_vars

\* direct tool calls
NextTools == ToolCall
SpecTools == Init /\ [][NextTools]_vars

(***************************************************************************)
(* Properties.                                                             *)
(***************************************************************************)
IsNull(v) == v.py = "None"

\* C1: every returned envelope has exactly one of result and error
\* non-null, whatever the endpoint answered.
C1_ExactlyOneNonNull ==
    gw_pc = "returned" => (IsNull(envelope.result) # IsNull(envelope.error))

\* C2: a call never raises to its caller; a failure at any step, prompt,
\* context and schema assembly included, ends in an envelope with error set.
C2_NeverRaises ==
    /\ gw_pc # "raised"
    /\ (gw_pc = "returned" /\ exc # NoExc) => ~IsNull(envelope.error)

\* C3: one call issues at most one request, an error envelope is returned
\* after exactly one request (no retry), and the client is closed before the
\* envelope is returned, on the success and on the failure path.
C3_SingleRequestScopedClient ==
    /\ requests <= 1
    /\ gw_pc \in {"except", "returned"} => (requests = 1 /\ ~connOpen)
    /\ connOpen => gw_pc \in {"post", "status", "json", "content", "loads", "exit_with"}

C3_Witness ==
    /\ gw_pc = "returned" /\ ~IsNull(envelope.error)
    /\ requests = 1 /\ ~connOpen
    /\ resp.status = 500

RECURSIVE BlocksLen(_)
BlocksLen(fields) ==
    IF fields = <<>> THEN 0
    ELSE Len(Head(fields).header) + Len(Head(fields).value) + 4
         + BlocksLen(Tail(fields))

\* C4: no field value is rendered longer than 5000 characters plus the
\* marker; a text of at most 5000 characters is rendered unchanged, a longer
\* one as its first 5000 characters followed by the marker; context_str is
\* made of exactly these renderings.
C4_TruncationBound ==
    gw_pc = "schema" =>
        /\ Len(rendered) = Len(context_data)
        /\ Len(context_str) = BlocksLen(rendered)
        /\ \A i \in 1..Len(context_data) :
             LET v == context_data[i][2]
                 r == rendered[i].value
             IN /\ Len(r) <= TruncateAt + Len(TruncationMarker)
                /\ (v.py = "str" /\ Len(v.s) <= TruncateAt) => r = v.s
                /\ (v.py = "str" /\ Len(v.s) > TruncateAt) =>
                       r = SubSeq(v.s, 1, TruncateAt) \o TruncationMarker

C4_Witness ==
    /\ gw_pc = "schema"
    /\ \E i, j \in 1..Len(context_data) :
         /\ Len(context_data[i][2].s) > TruncateAt + 1
         /\ Len(rendered[i].value) = TruncateAt + Len(TruncationMarker)
         /\ Len(context_data[j][2].s) = TruncateAt
         /\ rendered[j].value = context_data[j][2].s

\* C5: a field whose value is null is rendered as its upper-cased header
\* followed by an empty value, the same as the field with value "".
C5_NullAsEmpty ==
    gw_pc = "schema" =>
        \A i \in 1..Len(context_data) :
            context_data[i][2].py = "None" =>
                /\ rendered[i] = RenderedField(context_data[i][1], PyStr(<<>>))
                /\ rendered[i].value = <<>>

SevenActions ==
    { "schedule_technical_assessment", "route_to_department",
      "request_additional_info", "reject_application",
      "flag_for_manual_review", "send_email", "done" }

\* C6: in every state the gateway calls and handler dispatches of the loop
\* reach, the registry holds exactly the seven actions of startup, each with
\* its description, parameters and handler.
C6_RegistryReadOnly ==
    /\ DOMAIN registry = SevenActions
    /\ \A n \in SevenActions :
         /\ registry[n].function = n
         /\ registry[n].description = TOOL_REGISTRY[n].description
         /\ registry[n].parameters = TOOL_REGISTRY[n].parameters

C6_Witness ==
    /\ handlerCalls >= 2 /\ gatewayCalls >= 3
    /\ doneCalls = 1
    /\ DOMAIN registry = SevenActions

SameCall(a, b) ==
    /\ a.name = b.name
    /\ a.candidate_id = b.candidate_id
    /\ a.args = b.args

\* C7: two calls of a tool with the same arguments give equal outcomes,
\* whatever calls for other candidates come between them, and tool calls
\* change neither the registry nor any gateway or session state.
C7_DispatchIdempotent ==
    /\ \A i, j \in 1..Len(calls) :
         SameCall(calls[i], calls[j]) => calls[i].outcome = calls[j].outcome
    /\ registry = TOOL_REGISTRY
    /\ GwIdle
    /\ history = <<>> /\ ~terminal /\ sess_state = "Pending"

C7_Witness ==
    /\ Len(calls) = 3
    /\ SameCall(calls[1], calls[3])
    /\ calls[1].name = "send_email"
    /\ calls[2].candidate_id # calls[1].candidate_id
    /\ calls[1].outcome = calls[3].outcome

\* the reply under validation is one the loop must not act on
FailingReply ==
    /\ sess_state = "Deciding" /\ gw_pc = "returned"
    /\ \/ ~IsNull(envelope.error)
       \/ /\ envelope.result.py = "dict"
          /\ "action" \in DOMAIN envelope.result.d
          /\ \/ envelope.result.d.action \notin DOMAIN registry
             \/ /\ envelope.result.d.action \in DOMAIN registry
                /\ ~(DeclaredParams(registry[envelope.result.d.action])
                       \subseteq DOMAIN envelope.result.d)

\* C8: when the decision names an unregistered action, or omits a declared
\* parameter, or the envelope carries an error, the iteration ends without a
\* handler being run, with the failure appended to the history and the
\* session not terminal.
C8_NoHandlerOnProtocolFailure ==
    [][ FailingReply =>
          /\ sess_state' = "Pending"
          /\ handlerCalls' = handlerCalls /\ doneCalls' = doneCalls
          /\ ~terminal'
          /\ Len(history') = Len(history) + 1
          /\ SubSeq(history', 1, Len(history)) = history
          /\ history'[Len(history')].kind = "failure" ]_vars

C8_Witness ==
    /\ Len(history) = 3
    /\ \E i, j, k \in 1..3 :
         /\ history[i].class = "UnknownAction"
         /\ history[j].class = "SchemaViolation"
         /\ history[k].class \in {"NetworkFailure", "DecodeFailure"}
    /\ handlerCalls = 0 /\ ~terminal

\* C9: the history only grows, terminal goes from false to true at most
\* once and never back, and once the session is Done it stays Done: a later
\* invocation of the loop calls no gateway and runs no handler.
C9_DoneIsFinal ==
    [][ /\ Len(history') >= Len(history)
        /\ SubSeq(history', 1, Len(history)) = history
        /\ terminalFlips' <= 1
        /\ (~terminal /\ terminal') => terminalFlips' = terminalFlips + 1
        /\ terminal =>
             /\ terminal' /\ sess_state = "Done" /\ sess_state' = "Done"
             /\ gatewayCalls' = gatewayCalls
             /\ handlerCalls' = handlerCalls
             /\ history' = history
             /\ gw_pc' = "idle" ]_vars

C9_Witness ==
    /\ terminal /\ sess_state = "Done" /\ terminalFlips = 1
    /\ invocations >= 2 /\ ~running
    /\ gatewayCalls = 2 /\ handlerCalls = 2

\* C10: with every reply being {"action":"done"}, the first iteration of a
\* fresh session ends in Done, after one gateway call and one run of done.
C10_DoneInOneIteration ==
    (onlyDone /\ iterations >= 1 /\ sess_state \notin {"Deciding", "Dispatching"}) =>
        /\ sess_state = "Done" /\ terminal
        /\ iterations = 1 /\ gatewayCalls = 1
        /\ handlerCalls = 1 /\ doneCalls = 1

====
